---- MODULE Spec2Model ----
(***************************************************************************)
(* camera_test: the aggregate load built by TestGameWrapper::load, the     *)
(* two loader dispatch tables, and the per-frame operations of             *)
(* CameraTestScene (update, draw, interact, is_finished) against the       *)
(* lock-guarded World.                                                     *)
(*                                                                         *)
(* The Task combinators (map, join, sequence, serialize) and the           *)
(* SceneStackLoader live in the game_engine crate; what they do is taken   *)
(* from spec.md section 4.1.  Which tasks are mapped, joined and sequenced *)
(* is taken from main.rs.                                                  *)
(*                                                                         *)
(* Camera coordinates and translations are f32 in the program; they are    *)
(* modelled as integers in a range where f32 addition of 1.0 and 3.0 is    *)
(* exact.                                                                  *)
(***************************************************************************)
EXTENDS Integers, Sequences, FiniteSets, TLC

----------------------------------------------------------------------------
(* Bounds *)

MaxKeys == 2
MaxFrames == 2
MaxComponents == 2

----------------------------------------------------------------------------
(* Program constants *)

CAMERA_TEST_SCENE_ID == "camera_test_scene"
TEXTURE_LOAD_ID == "texture"
TRANSFORM_LOAD_ID == "transform"

PressedStep == 1
HeldStep == 3

\* glfw::Key values the scene distinguishes, and one it does not ("A").
Keys == {"Left", "Right", "Up", "Down", "Q", "A"}

\* Type identifiers a load descriptor may carry.
TypeIds == {CAMERA_TEST_SCENE_ID, TEXTURE_LOAD_ID, TRANSFORM_LOAD_ID,
            "menu_scene", "sprite"}

\* JSONLoad { load_type_id, actual_value }: the payload is represented by
\* whether it deserializes into the loader's configuration.
Descriptors == [load_type_id : TypeIds, payload_ok : BOOLEAN]

Entities == {"e1", "e2", "e3"}

\* Translation X a TransformLoader payload gives each entity.
EntityInitX == [e \in Entities |-> IF e = "e1" THEN 0 ELSE 1]

----------------------------------------------------------------------------
(* Generic helpers *)

Range(s) == {s[i] : i \in 1..Len(s)}

SeqsUpTo(S, n) == UNION {[1..k -> S] : k \in 0..n}

----------------------------------------------------------------------------
(* Errors: anyhow::Error values.  msg is the message as a word sequence;   *)
(* origin names the step that produced the error.                          *)

NoError == [kind |-> "None", msg |-> <<>>, origin |-> "none"]

LeafError(origin) ==
    [kind |-> "LoadError", msg |-> <<"load", "failed">>, origin |-> origin]

ClosureError(origin) ==
    [kind |-> "ClosureError", msg |-> <<"closure", "failed">>,
     origin |-> origin]

DeserializationError(origin) ==
    [kind |-> "DeserializationError", msg |-> <<"invalid", "payload">>,
     origin |-> origin]

----------------------------------------------------------------------------
(* Loader dispatch *)

NoLoader == "none"

scene_factory_silent(json) ==
    IF json.load_type_id = CAMERA_TEST_SCENE_ID
    THEN IF json.payload_ok
         THEN [ok |-> TRUE, loader |-> "CameraTestSceneLoader", err |-> NoError]
         ELSE [ok |-> FALSE, loader |-> NoLoader,
               err |-> DeserializationError("scene_factory")]
    ELSE [ok |-> TRUE, loader |-> NoLoader, err |-> NoError]

scene_factory(json) ==
    IF json.load_type_id = CAMERA_TEST_SCENE_ID
    THEN IF json.payload_ok
         THEN [ok |-> TRUE, loader |-> "CameraTestSceneLoader", err |-> NoError]
         ELSE [ok |-> FALSE, loader |-> NoLoader,
               err |-> DeserializationError("scene_factory")]
    ELSE [ok |-> FALSE, loader |-> NoLoader,
          err |-> [kind |-> "UnknownLoadType",
                   msg |-> <<"Load", "ID", "did", "not", "match", "any",
                             "scene", "ID">>,
                   origin |-> "scene_factory"]]

map_json_to_loader(json) ==
    CASE json.load_type_id = TEXTURE_LOAD_ID ->
           IF json.payload_ok
           THEN [ok |-> TRUE, loader |-> "TextureLoader", err |-> NoError]
           ELSE [ok |-> FALSE, loader |-> NoLoader,
                 err |-> DeserializationError("map_json_to_loader")]
      [] json.load_type_id = TRANSFORM_LOAD_ID ->
           IF json.payload_ok
           THEN [ok |-> TRUE, loader |-> "TransformLoader", err |-> NoError]
           ELSE [ok |-> FALSE, loader |-> NoLoader,
                 err |-> DeserializationError("map_json_to_loader")]
      [] OTHER ->
           [ok |-> FALSE, loader |-> NoLoader,
            err |-> [kind |-> "UnknownLoadType",
                     msg |-> <<"Invalid", "json", "load", "ID">>,
                     origin |-> "map_json_to_loader"]]

----------------------------------------------------------------------------
(* Camera: the World resource Option<Box<dyn Camera>>                       *)

NoCamera == [present |-> FALSE, pos |-> <<0, 0, 0>>, target |-> <<0, 0, 0>>]

\* The camera the OrthographicCameraLoader produces.
LoadedCamera == [present |-> TRUE, pos |-> <<0, 0, 1>>, target |-> <<0, 0, 0>>]

Move_flipY(v, dx, dy) == <<v[1] + dx, v[2] - dy, v[3]>>

\* Vec3::new(current[0] + dx, current[1] + dy, current[2])
Move(v, dx, dy) == <<v[1] + dx, v[2] + dy, v[3]>>

PressedKey_targetOnly(cam, key) ==
    CASE key = "Left"  -> [cam EXCEPT !.target = Move(@, -PressedStep, 0)]
      [] key = "Right" -> [cam EXCEPT !.target = Move(@, PressedStep, 0)]
      [] key = "Up"    -> [cam EXCEPT !.target = Move(@, 0, -PressedStep)]
      [] key = "Down"  -> [cam EXCEPT !.target = Move(@, 0, PressedStep)]
      [] OTHER -> cam

\* One iteration of the loop over input.get_pressed_keys().
PressedKey(cam, key) ==
    CASE key = "Left"  -> [cam EXCEPT !.pos = Move(@, -PressedStep, 0),
                                      !.target = Move(@, -PressedStep, 0)]
      [] key = "Right" -> [cam EXCEPT !.pos = Move(@, PressedStep, 0),
                                      !.target = Move(@, PressedStep, 0)]
      [] key = "Up"    -> [cam EXCEPT !.pos = Move(@, 0, -PressedStep),
                                      !.target = Move(@, 0, -PressedStep)]
      [] key = "Down"  -> [cam EXCEPT !.pos = Move(@, 0, PressedStep),
                                      !.target = Move(@, 0, PressedStep)]
      [] OTHER -> cam

HeldKey_posOnly(cam, key) ==
    CASE key = "Left"  -> [cam EXCEPT !.pos = Move(@, -HeldStep, 0)]
      [] key = "Right" -> [cam EXCEPT !.pos = Move(@, HeldStep, 0)]
      [] key = "Up"    -> [cam EXCEPT !.pos = Move(@, 0, -HeldStep)]
      [] key = "Down"  -> [cam EXCEPT !.pos = Move(@, 0, HeldStep)]
      [] OTHER -> cam

\* One iteration of the loop over input.get_held_keys(): camera part.
HeldKey(cam, key) ==
    CASE key = "Left"  -> [cam EXCEPT !.pos = Move(@, -HeldStep, 0),
                                      !.target = Move(@, -HeldStep, 0)]
      [] key = "Right" -> [cam EXCEPT !.pos = Move(@, HeldStep, 0),
                                      !.target = Move(@, HeldStep, 0)]
      [] key = "Up"    -> [cam EXCEPT !.pos = Move(@, 0, -HeldStep),
                                      !.target = Move(@, 0, -HeldStep)]
      [] key = "Down"  -> [cam EXCEPT !.pos = Move(@, 0, HeldStep),
                                      !.target = Move(@, 0, HeldStep)]
      [] OTHER -> cam

HeldKeyFinish_toggle(flag, key) == IF key = "Q" THEN ~flag ELSE flag

\* One iteration of the loop over input.get_held_keys(): should_finish part.
HeldKeyFinish(flag, key) == IF key = "Q" THEN TRUE ELSE flag

PressedFinish_q(flag, keys) == flag \/ "Q" \in Range(keys)

\* The loop over input.get_pressed_keys(): should_finish part.  No arm of
\* its match stores to the flag; Q falls to `_ => {}`.
PressedFinish(flag, keys) == flag

RECURSIVE PressedLoop(_, _)
PressedLoop(cam, keys) ==
    IF keys = <<>> THEN cam
    ELSE PressedLoop(PressedKey(cam, Head(keys)), Tail(keys))

RECURSIVE HeldLoop(_, _)
HeldLoop(cam, keys) ==
    IF keys = <<>> THEN cam
    ELSE HeldLoop(HeldKey(cam, Head(keys)), Tail(keys))

RECURSIVE HeldFinishLoop(_, _)
HeldFinishLoop(flag, keys) ==
    IF keys = <<>> THEN flag
    ELSE HeldFinishLoop(HeldKeyFinish(flag, Head(keys)), Tail(keys))

----------------------------------------------------------------------------
(* update: the loop over (&transforms).join()                               *)

TransformStep_double(tr, e) == [tr EXCEPT ![e] = @ + 2]

\* transform.translation[0].store(transform.translation[0].load(..) + 1.0, ..)
TransformStep(tr, e) == [tr EXCEPT ![e] = @ + 1]

RECURSIVE UpdateLoop(_, _)
UpdateLoop(tr, order) ==
    IF order = <<>> THEN tr
    ELSE UpdateLoop(TransformStep(tr, Head(order)), Tail(order))

\* The orders in which the join may visit the entities that have a Transform.
Orders(S) == {o \in [1..Cardinality(S) -> S] : Range(o) = S}

----------------------------------------------------------------------------
(* The aggregate load of TestGameWrapper::load                              *)

LoadTasks == {"td", "cam"}

HasMap_camOnly(t) == t = "cam"

\* td_loader.load().map(..) and camera_loader.load().map(..)
HasMap(t) == TRUE

\* What each insert closure returns.
ClosureResult(t) == "Ok"

InsertedResource_cameraOnly(t) == "camera"

\* What each insert closure puts into the World: world.insert(texture_dict)
\* and world.insert::<Option<Box<dyn Camera>>>(Some(Box::new(camera))).
InsertedResource(t) == IF t = "td" THEN "texture_dict" ELSE "camera"

GuardAfterInsert_held(t) == t

\* The holder of the World write lock once the insert statement has ended:
\* the guard is a temporary of that statement.
GuardAfterInsert(t) == "none"

JoinChildren_tdOnly == {"td"}

\* td_task.join(camera_task, |_| {})
JoinChildren == {"td", "cam"}

----------------------------------------------------------------------------
(* State *)

VARIABLES
    pc,             \* per joined task: init, loaded, locked, done, failed
    mapCalls,       \* per joined task: times its map closure was entered
    worldWriter,    \* holder of the World write lock, or "none"
    joinPc,         \* running, ok, failed
    combineCalls,   \* times the join's combine closure ran
    ssPc,           \* scene-stack load: waiting, factory, renderer,
                    \*   entities, construct, done, failed
    sceneMapCalls,  \* times the scene-constructing map closure ran
    errLog,         \* errors of the load steps, in the order they occurred
    loadResult,     \* outcome of the aggregate load
    insertOrder,    \* joined tasks in the order their inserts happened
    textureDict,    \* World holds the texture dictionary
    camera,         \* World's Option<Box<dyn Camera>>
    entities,       \* entities created in the World
    transforms,     \* translation[0] of each entity that has a Transform
    sceneBuilt,     \* a CameraTestScene exists
    should_finish,  \* CameraTestScene.should_finish
    frameBuffer,    \* back buffer: empty, cleared, drawn
    poisoned,       \* RwLocks poisoned by a panic under a write guard
    crashed,        \* a panic has unwound the calling thread
    framePc,        \* the Scene operation the frame driver calls next
    frame,          \* number of the current frame
    keyEvents,      \* key events delivered to interact so far
    call,           \* the last Scene operation, its input and its result
    dispatch        \* the last dispatch call, its descriptor and its result

loadVars == <<pc, mapCalls, worldWriter, joinPc, combineCalls, ssPc,
              sceneMapCalls, errLog, loadResult, insertOrder, dispatch>>
worldVars == <<textureDict, camera, entities, transforms>>
sceneVars == <<sceneBuilt, should_finish, frameBuffer, poisoned, crashed,
               framePc, frame, keyEvents, call>>
vars == <<loadVars, worldVars, sceneVars>>

NoCall == [op |-> "none", pressed |-> <<>>, held |-> <<>>,
           result |-> "none", backend |-> "none", preCamera |-> NoCamera, preFinish |-> FALSE]

NoDispatch == [fn |-> "none",
               json |-> [load_type_id |-> "", payload_ok |-> FALSE],
               result |-> [ok |-> FALSE, loader |-> NoLoader,
                           err |-> NoError]]

Pending == [status |-> "pending", err |-> NoError]

\* The state GameLoop::run starts the aggregate load in.
Init ==
    /\ pc = [t \in LoadTasks |-> "init"]
    /\ mapCalls = [t \in LoadTasks |-> 0]
    /\ worldWriter = "none"
    /\ joinPc = "running"
    /\ combineCalls = 0
    /\ ssPc = "waiting"
    /\ sceneMapCalls = 0
    /\ errLog = <<>>
    /\ loadResult = Pending
    /\ insertOrder = <<>>
    /\ textureDict = FALSE
    /\ camera = NoCamera
    /\ entities = {}
    /\ transforms = <<>>
    /\ sceneBuilt = FALSE
    /\ should_finish = FALSE
    /\ frameBuffer = "empty"
    /\ poisoned = {}
    /\ crashed = FALSE
    /\ framePc = "update"
    /\ frame = 1
    /\ keyEvents = 0
    /\ call = NoCall
    /\ dispatch = NoDispatch

----------------------------------------------------------------------------
(* Load phase *)

\* The error a failed composite reports: the first one encountered.
FirstError(log) == Head(log)

Failed(log) == [status |-> "failed", err |-> FirstError(log)]

\* td_loader.load() / camera_loader.load(): the leaf of a joined task.
LeafRun(t) ==
    /\ joinPc = "running"
    /\ pc[t] = "init"
    /\ \E err \in {NoError, LeafError(t), DeserializationError(t)} :
         IF err = NoError
         THEN /\ pc' = [pc EXCEPT ![t] = IF HasMap(t) THEN "loaded" ELSE "done"]
              /\ errLog' = errLog
         ELSE /\ pc' = [pc EXCEPT ![t] = "failed"]
              /\ errLog' = Append(errLog, err)
    /\ UNCHANGED <<mapCalls, worldWriter, joinPc, combineCalls, ssPc,
                   sceneMapCalls, loadResult, insertOrder, dispatch>>
    /\ UNCHANGED <<worldVars, sceneVars>>

\* The map closure is entered and takes the World write lock: ecs.write().
MapAcquire(t) ==
    /\ joinPc = "running"
    /\ pc[t] = "loaded"
    /\ worldWriter = "none"
    /\ "World" \notin poisoned
    /\ pc' = [pc EXCEPT ![t] = "locked"]
    /\ mapCalls' = [mapCalls EXCEPT ![t] = @ + 1]
    /\ worldWriter' = t
    /\ UNCHANGED <<joinPc, combineCalls, ssPc, sceneMapCalls, errLog,
                   loadResult, insertOrder, dispatch>>
    /\ UNCHANGED <<worldVars, sceneVars>>

\* .insert(..), the guard is dropped at the end of the statement, Ok(()).
MapInsert(t) ==
    /\ pc[t] = "locked"
    /\ worldWriter = t
    /\ textureDict' = (textureDict \/ InsertedResource(t) = "texture_dict")
    /\ camera' = IF InsertedResource(t) = "camera" THEN LoadedCamera
                  ELSE camera
    /\ insertOrder' = Append(insertOrder, t)
    /\ worldWriter' = GuardAfterInsert(t)
    /\ IF ClosureResult(t) = "Ok"
       THEN /\ pc' = [pc EXCEPT ![t] = "done"]
            /\ errLog' = errLog
       ELSE /\ pc' = [pc EXCEPT ![t] = "failed"]
            /\ errLog' = Append(errLog, ClosureError(t))
    /\ UNCHANGED <<mapCalls, joinPc, combineCalls, ssPc, sceneMapCalls,
                   loadResult, dispatch>>
    /\ UNCHANGED <<entities, transforms, sceneVars>>

\* Both joined tasks succeeded: combine runs and the join succeeds.
JoinOk ==
    /\ joinPc = "running"
    /\ \A t \in JoinChildren : pc[t] = "done"
    /\ joinPc' = "ok"
    /\ combineCalls' = combineCalls + 1
    /\ UNCHANGED <<pc, mapCalls, worldWriter, ssPc, sceneMapCalls, errLog,
                   loadResult, insertOrder, dispatch>>
    /\ UNCHANGED <<worldVars, sceneVars>>

\* A joined task failed: the join, and with it the aggregate load, fails.
\* The other task may have run to its end or not have been run further.
JoinFail ==
    /\ joinPc = "running"
    /\ \E t \in JoinChildren : pc[t] = "failed"
    /\ \A t \in LoadTasks : pc[t] # "locked"
    /\ joinPc' = "failed"
    /\ loadResult' = Failed(errLog)
    /\ UNCHANGED <<pc, mapCalls, worldWriter, combineCalls, ssPc,
                   sceneMapCalls, errLog, insertOrder, dispatch>>
    /\ UNCHANGED <<worldVars, sceneVars>>

SceneStackMayStart_tdOnly == pc["td"] = "done"

SceneStackMayStart_always == joinPc # "running"

\* .sequence(ss_loader.load()): the second task runs once the first
\* (the join) has succeeded.
SceneStackMayStart == joinPc = "ok"

SSFail(err) ==
    /\ ssPc' = "failed"
    /\ errLog' = Append(errLog, err)
    /\ loadResult' = Failed(Append(errLog, err))

\* ss_loader.load() starts: the scene-stack file is read.
SSStart ==
    /\ ssPc = "waiting"
    /\ SceneStackMayStart
    /\ \E fileOk \in BOOLEAN :
         IF fileOk
         THEN ssPc' = "factory" /\ UNCHANGED <<errLog, loadResult>>
         ELSE SSFail(LeafError("ss"))
    /\ UNCHANGED <<pc, mapCalls, worldWriter, joinPc, combineCalls,
                   sceneMapCalls, insertOrder, dispatch>>
    /\ UNCHANGED <<worldVars, sceneVars>>

\* The scene descriptor of the stack file goes through scene_factory.
SSFactory ==
    /\ ssPc = "factory"
    /\ \E json \in Descriptors :
         LET r == scene_factory(json) IN
           /\ dispatch' = [fn |-> "scene_factory", json |-> json, result |-> r]
           /\ IF r.ok
              THEN ssPc' = "renderer" /\ UNCHANGED <<errLog, loadResult>>
              ELSE SSFail(r.err)
    /\ UNCHANGED <<pc, mapCalls, worldWriter, joinPc, combineCalls,
                   sceneMapCalls, insertOrder>>
    /\ UNCHANGED <<worldVars, sceneVars>>

\* load_scene: SpriteRendererLoader::load_default()
SSRenderer ==
    /\ ssPc = "renderer"
    /\ \E ok \in BOOLEAN :
         IF ok
         THEN ssPc' = "entities" /\ UNCHANGED <<errLog, loadResult>>
         ELSE SSFail(LeafError("renderer"))
    /\ UNCHANGED <<pc, mapCalls, worldWriter, joinPc, combineCalls,
                   sceneMapCalls, insertOrder, dispatch>>
    /\ UNCHANGED <<worldVars, sceneVars>>

MinOf(S) == CHOOSE i \in S : \A j \in S : i <= j

EntitiesMayStart_unordered == ssPc \in {"renderer", "entities"}

\* load_default().serialize(Task::new(..)): the entity step runs on the
\* renderer the first step resolved to.
EntitiesMayStart == ssPc = "entities"

\* load_scene: create_entity_vec builds one entity of entity_paths; each of
\* its component descriptors goes through map_json_to_loader, and the first
\* one that fails ends the step with its error.
SSEntity ==
    /\ EntitiesMayStart
    /\ \E e \in Entities \ entities :
       \E descs \in SeqsUpTo(Descriptors, MaxComponents) :
         LET res == [i \in 1..Len(descs) |-> map_json_to_loader(descs[i])]
             bad == {i \in 1..Len(descs) : ~res[i].ok}
             lastIdx == IF bad = {} THEN Len(descs) ELSE MinOf(bad)
             ids == {descs[i].load_type_id : i \in 1..Len(descs)}
         IN
           /\ dispatch' = IF lastIdx = 0 THEN dispatch
                          ELSE [fn |-> "map_json_to_loader",
                                json |-> descs[lastIdx],
                                result |-> res[lastIdx]]
           /\ IF bad = {}
              THEN /\ entities' = entities \cup {e}
                   /\ transforms' =
                        IF TRANSFORM_LOAD_ID \in ids
                        THEN [x \in DOMAIN transforms \cup {e} |->
                                IF x = e THEN EntityInitX[e]
                                ELSE transforms[x]]
                        ELSE transforms
                   /\ UNCHANGED <<ssPc, errLog, loadResult>>
              ELSE /\ SSFail(res[lastIdx].err)
                   /\ UNCHANGED <<entities, transforms>>
    /\ UNCHANGED <<pc, mapCalls, worldWriter, joinPc, combineCalls,
                   sceneMapCalls, insertOrder>>
    /\ UNCHANGED <<textureDict, camera, sceneVars>>

\* load_scene: every entity path is done, the serialized step returns
\* Ok(renderer).
SSEntitiesDone ==
    /\ ssPc = "entities"
    /\ ssPc' = "construct"
    /\ UNCHANGED <<pc, mapCalls, worldWriter, joinPc, combineCalls,
                   sceneMapCalls, errLog, loadResult, insertOrder, dispatch>>
    /\ UNCHANGED <<worldVars, sceneVars>>

\* should_finish: AtomicBool::new(false)
NewShouldFinish == FALSE

\* load_scene: the map closure constructs the CameraTestScene; the
\* SceneStack is produced.
SSConstruct ==
    /\ ssPc = "construct"
    /\ ssPc' = "done"
    /\ sceneMapCalls' = sceneMapCalls + 1
    /\ sceneBuilt' = TRUE
    /\ should_finish' = NewShouldFinish
    /\ loadResult' = [status |-> "ok", err |-> NoError]
    /\ UNCHANGED <<pc, mapCalls, worldWriter, joinPc, combineCalls,
                   errLog, insertOrder, dispatch>>
    /\ UNCHANGED <<worldVars, frameBuffer, poisoned, crashed, framePc, frame,
                   keyEvents, call>>

----------------------------------------------------------------------------
(* Scene operations, called by the frame driver once per frame in the      *)
(* order update, draw, interact, and then is_finished.                      *)

Running == sceneBuilt /\ ~crashed /\ worldWriter = "none"

\* The locks a panic poisons: those whose write guard is alive at the
\* panicking expression.  The Scene only read-locks the World.
PoisonedAt(point) ==
    CASE point = "back_buffer" -> {"Context"}
      [] point = "render" -> {"Context", "Renderer"}
      [] OTHER -> {}

Called(op, pressed, held, result) ==
    [op |-> op, pressed |-> pressed, held |-> held, result |-> result,
     backend |-> "none",
     preCamera |-> camera, preFinish |-> should_finish]

\* A draw call with what the rendering backend reported during it.
DrawCalled(result, backend) ==
    [Called("draw", <<>>, <<>>, result) EXCEPT !.backend = backend]

Update ==
    /\ Running
    /\ framePc = "update"
    /\ frame <= MaxFrames
    /\ \E order \in Orders(DOMAIN transforms) :
         transforms' = UpdateLoop(transforms, order)
    /\ call' = Called("update", <<>>, <<>>, "Ok(NONE)")
    /\ framePc' = "draw"
    /\ UNCHANGED <<textureDict, camera, entities>>
    /\ UNCHANGED <<sceneBuilt, should_finish, frameBuffer, poisoned, crashed,
                   frame, keyEvents>>
    /\ UNCHANGED loadVars

\* draw, apart from what it leaves in the World and the Scene's flag.
DrawBody ==
    /\ Running
    /\ framePc = "draw"
    /\ \E backBufferOk \in BOOLEAN, pipelineOk \in BOOLEAN,
          renderOk \in BOOLEAN :
         CASE ~backBufferOk ->
                \* context.back_buffer().expect(..) panics
                /\ call' = DrawCalled("panic", "back_buffer_error")
                /\ poisoned' = poisoned \cup PoisonedAt("back_buffer")
                /\ crashed' = TRUE
                /\ UNCHANGED frameBuffer
           [] backBufferOk /\ ~pipelineOk ->
                \* the pipeline fails before the closure runs; its result
                \* is dropped
                /\ call' = DrawCalled("Ok", "pipeline_error")
                /\ UNCHANGED <<frameBuffer, poisoned, crashed>>
           [] backBufferOk /\ pipelineOk /\ ~renderOk ->
                \* render(..).unwrap() panics inside the pipeline closure
                /\ call' = DrawCalled("panic", "render_error")
                /\ poisoned' = poisoned \cup PoisonedAt("render")
                /\ crashed' = TRUE
                /\ frameBuffer' = "cleared"
           [] OTHER ->
                /\ call' = DrawCalled("Ok", "ok")
                /\ frameBuffer' = "drawn"
                /\ UNCHANGED <<poisoned, crashed>>
    /\ framePc' = "interact"
    /\ UNCHANGED <<sceneBuilt, frame, keyEvents>>
    /\ UNCHANGED loadVars

Draw_updates ==
    /\ DrawBody
    /\ transforms' = [e \in DOMAIN transforms |-> transforms[e] + 1]
    /\ UNCHANGED <<textureDict, camera, entities, should_finish>>

Draw ==
    /\ DrawBody
    /\ UNCHANGED should_finish
    /\ UNCHANGED worldVars

InteractBody_degrade(cam, flag, pressed, held) ==
    IF cam.present
    THEN [camera |-> HeldLoop(PressedLoop(cam, pressed), held),
          finish |-> HeldFinishLoop(PressedFinish(flag, pressed), held),
          result |-> "Ok"]
    ELSE [camera |-> cam, finish |-> HeldFinishLoop(flag, held),
          result |-> "Ok"]

\* The body of interact: what it leaves in the camera and the flag, and
\* how it ends.
InteractBody(cam, flag, pressed, held) ==
    IF cam.present
    THEN [camera |-> HeldLoop(PressedLoop(cam, pressed), held),
          finish |-> HeldFinishLoop(PressedFinish(flag, pressed), held),
          result |-> "Ok"]
    ELSE \* panic!("Camera does not exist.")
         [camera |-> cam, finish |-> flag, result |-> "panic"]

Interact ==
    /\ Running
    /\ framePc = "interact"
    /\ \E pressed \in SeqsUpTo(Keys, MaxKeys - keyEvents) :
       \E held \in SeqsUpTo(Keys, MaxKeys - keyEvents - Len(pressed)) :
         LET r == InteractBody(camera, should_finish, pressed, held) IN
           /\ camera' = r.camera
           /\ should_finish' = r.finish
           /\ call' = Called("interact", pressed, held, r.result)
           /\ crashed' = (r.result = "panic")
           /\ poisoned' = IF r.result = "panic"
                          THEN poisoned \cup PoisonedAt("camera")
                          ELSE poisoned
           /\ keyEvents' = keyEvents + Len(pressed) + Len(held)
    /\ framePc' = "is_finished"
    /\ UNCHANGED <<textureDict, entities, transforms>>
    /\ UNCHANGED <<sceneBuilt, frameBuffer, frame>>
    /\ UNCHANGED loadVars

IsFinished_locking ==
    /\ Running
    /\ framePc = "is_finished"
    /\ call' = Called("is_finished", <<>>, <<>>,
                      IF should_finish THEN "Ok(true)" ELSE "Ok(false)")
    /\ framePc' = "update"
    /\ frame' = frame + 1
    /\ UNCHANGED <<sceneBuilt, should_finish, frameBuffer, poisoned, crashed,
                   keyEvents>>
    /\ UNCHANGED worldVars
    /\ UNCHANGED loadVars

\* is_finished loads the flag; it does not touch _ecs.
IsFinished ==
    /\ sceneBuilt /\ ~crashed
    /\ framePc = "is_finished"
    /\ call' = Called("is_finished", <<>>, <<>>,
                      IF should_finish THEN "Ok(true)" ELSE "Ok(false)")
    /\ framePc' = "update"
    /\ frame' = frame + 1
    /\ UNCHANGED <<sceneBuilt, should_finish, frameBuffer, poisoned, crashed,
                   keyEvents>>
    /\ UNCHANGED worldVars
    /\ UNCHANGED loadVars

----------------------------------------------------------------------------
(* Specifications *)

\* The aggregate load, from GameLoop::run starting it to a SceneStack or an
\* error.
NextLoad ==
    \/ \E t \in LoadTasks : LeafRun(t)
    \/ \E t \in LoadTasks : MapAcquire(t)
    \/ \E t \in LoadTasks : MapInsert(t)
    \/ JoinOk
    \/ JoinFail
    \/ SSStart
    \/ SSFactory
    \/ SSRenderer
    \/ SSEntity
    \/ SSEntitiesDone
    \/ SSConstruct

SpecLoad == Init /\ [][NextLoad]_vars

\* The executor runs the aggregate task to its end: while a step of the
\* load can be taken, one is.
SpecLoadFair == SpecLoad /\ WF_vars(NextLoad)

\* A newly constructed CameraTestScene driven frame by frame against the
\* World its caller hands it: the camera resource is Some or None, and two
\* of the three entities carry a Transform.  The frames' inputs hold at
\* most MaxKeys key events in all.  The load variables stay as they are.
InitScene ==
    /\ pc = [t \in LoadTasks |-> "init"]
    /\ mapCalls = [t \in LoadTasks |-> 0]
    /\ worldWriter = "none"
    /\ joinPc = "running"
    /\ combineCalls = 0
    /\ ssPc = "waiting"
    /\ sceneMapCalls = 0
    /\ errLog = <<>>
    /\ loadResult = Pending
    /\ insertOrder = <<>>
    /\ dispatch = NoDispatch
    /\ textureDict = TRUE
    /\ camera \in {NoCamera, LoadedCamera}
    /\ entities = Entities
    /\ transforms = [e \in {"e1", "e2"} |-> EntityInitX[e]]
    /\ sceneBuilt = TRUE
    /\ should_finish = NewShouldFinish
    /\ frameBuffer = "empty"
    /\ poisoned = {}
    /\ crashed = FALSE
    /\ framePc = "update"
    /\ frame = 1
    /\ keyEvents = 0
    /\ call = NoCall

NextScene ==
    \/ Update
    \/ Draw
    \/ Interact
    \/ IsFinished

SpecScene == InitScene /\ [][NextScene]_vars

\* Another holder of the Arc<RwLock<World>> takes and drops the write lock
\* while the Scene is live.
WriterAcquire ==
    /\ sceneBuilt /\ ~crashed
    /\ worldWriter = "none"
    /\ worldWriter' = "other"
    /\ UNCHANGED <<pc, mapCalls, joinPc, combineCalls, ssPc, sceneMapCalls,
                   errLog, loadResult, insertOrder, dispatch>>
    /\ UNCHANGED <<worldVars, sceneVars>>

WriterRelease ==
    /\ worldWriter = "other"
    /\ worldWriter' = "none"
    /\ UNCHANGED <<pc, mapCalls, joinPc, combineCalls, ssPc, sceneMapCalls,
                   errLog, loadResult, insertOrder, dispatch>>
    /\ UNCHANGED <<worldVars, sceneVars>>

\* One frame of a Scene whose World is shared with a writer.  What
\* is_finished does is the same in every frame, so the frame modelled is
\* the last one.
InitHandoff ==
    /\ pc = [t \in LoadTasks |-> "init"]
    /\ mapCalls = [t \in LoadTasks |-> 0]
    /\ worldWriter = "none"
    /\ joinPc = "running"
    /\ combineCalls = 0
    /\ ssPc = "waiting"
    /\ sceneMapCalls = 0
    /\ errLog = <<>>
    /\ loadResult = Pending
    /\ insertOrder = <<>>
    /\ dispatch = NoDispatch
    /\ textureDict = TRUE
    /\ camera = LoadedCamera
    /\ entities = Entities
    /\ transforms = [e \in {"e1", "e2"} |-> EntityInitX[e]]
    /\ sceneBuilt = TRUE
    /\ should_finish = NewShouldFinish
    /\ frameBuffer = "empty"
    /\ poisoned = {}
    /\ crashed = FALSE
    /\ framePc = "update"
    /\ frame = MaxFrames
    /\ keyEvents = 0
    /\ call = NoCall

NextHandoff ==
    \/ Update
    \/ Draw
    \/ Interact
    \/ IsFinished
    \/ WriterAcquire
    \/ WriterRelease

SpecHandoff == InitHandoff /\ [][NextHandoff]_vars

----------------------------------------------------------------------------
(* Properties *)

LeafFailed(t) ==
    \E i \in 1..Len(errLog) :
        errLog[i].origin = t /\ errLog[i].kind # "ClosureError"

ClosureFailed(t) ==
    \E i \in 1..Len(errLog) :
        errLog[i].origin = t /\ errLog[i].kind = "ClosureError"

IsFinishedValue == IF should_finish THEN "Ok(true)" ELSE "Ok(false)"

\* C1: is_finished returns false from construction until an interact call
\* processes a held Q; the flag is set only by such a call, and once set it
\* stays set (and is_finished returns true) over all later frame cycles.
C1_FinishedIsMonotonic ==
    /\ should_finish = FALSE
    /\ [](call.op = "is_finished" => call.result = IsFinishedValue)
    /\ [][should_finish => should_finish']_vars
    /\ [][(~should_finish /\ should_finish') =>
            (call'.op = "interact" /\ "Q" \in Range(call'.held))]_vars

\* An interact call without Q made after the flag was set leaves it set.
C1_Witness ==
    /\ call.op = "interact"
    /\ call.preFinish
    /\ "Q" \notin Range(call.held)
    /\ should_finish

\* C2: the scene-stack load starts, and a SceneStack is produced, only when
\* the texture dictionary and Some(camera) are both in the World, whichever
\* of the two joined tasks inserted first.
C2_StackAfterBothInserts ==
    /\ ssPc # "waiting" => (textureDict /\ camera.present)
    /\ loadResult.status = "ok" =>
         (textureDict /\ camera = LoadedCamera /\ Len(insertOrder) = 2)

\* A SceneStack produced after the camera was inserted before the texture
\* dictionary.
C2_Witness ==
    /\ loadResult.status = "ok"
    /\ insertOrder = <<"cam", "td">>

\* C3: when the camera load fails no SceneStack is produced, the scene-stack
\* load is never run, and the aggregate load reports the camera's error
\* unless the texture-dictionary load failed before it; a failed aggregate
\* load always reports the first error encountered.
C3_CameraFailureAborts ==
    /\ pc["cam"] = "failed" =>
         (ssPc = "waiting" /\ loadResult.status # "ok" /\ ~sceneBuilt)
    /\ loadResult.status = "failed" =>
         (errLog # <<>> /\ loadResult.err = errLog[1])
    /\ (loadResult.status = "failed" /\ pc["cam"] = "failed") =>
         \/ loadResult.err.origin = "cam"
         \/ pc["td"] = "failed" /\ errLog[1].origin = "td"

\* The texture dictionary was inserted, the camera descriptor was malformed,
\* and the aggregate load failed with the camera's error.
C3_Witness ==
    /\ loadResult.status = "failed"
    /\ pc = [t \in LoadTasks |-> IF t = "td" THEN "done" ELSE "failed"]
    /\ loadResult.err = DeserializationError("cam")
    /\ ssPc = "waiting"

\* C4: the join succeeds exactly when both joined tasks succeed; when
\* exactly one of them failed the join fails with that task's error.
C4_JoinIffBoth ==
    /\ joinPc = "ok" => \A t \in LoadTasks : pc[t] = "done"
    /\ joinPc = "failed" => \E t \in LoadTasks : pc[t] = "failed"
    /\ (joinPc = "running" /\ \A t \in LoadTasks : pc[t] = "done") =>
         (ENABLED JoinOk /\ ~ENABLED JoinFail)
    /\ \A t \in LoadTasks :
         (joinPc = "failed" /\ pc[t] = "failed"
            /\ \A u \in LoadTasks \ {t} : pc[u] # "failed") =>
           loadResult.err.origin = t

\* The texture-dictionary task failed while the camera task succeeded, and
\* the join reports the texture dictionary's error.
C4_Witness ==
    /\ joinPc = "failed"
    /\ pc = [t \in LoadTasks |-> IF t = "td" THEN "failed" ELSE "done"]
    /\ loadResult.err.origin = "td"

UnknownSceneId(id) == id # CAMERA_TEST_SCENE_ID

UnknownComponentId(id) == id \notin {TEXTURE_LOAD_ID, TRANSFORM_LOAD_ID}

DispatchMiss ==
    \/ dispatch.fn = "scene_factory"
         /\ UnknownSceneId(dispatch.json.load_type_id)
    \/ dispatch.fn = "map_json_to_loader"
         /\ UnknownComponentId(dispatch.json.load_type_id)

\* C6: a descriptor whose type_id is not registered in the table it is
\* given to makes the dispatch return the unknown-load-type error and
\* construct no loader; it never returns Ok.
C6_UnknownTypeIsError ==
    DispatchMiss =>
      /\ ~dispatch.result.ok
      /\ dispatch.result.loader = NoLoader
      /\ dispatch.result.err.kind = "UnknownLoadType"

\* scene_factory was given a descriptor with a component's type_id.
C6_Witness ==
    /\ dispatch.fn = "scene_factory"
    /\ dispatch.json = [load_type_id |-> TEXTURE_LOAD_ID, payload_ok |-> TRUE]
    /\ ~dispatch.result.ok

\* C7: the error a dispatch returns for an unregistered type_id carries
\* that type_id in its message.
C7_ErrorNamesTypeId ==
    DispatchMiss =>
      dispatch.json.load_type_id \in Range(dispatch.result.err.msg)

CameraMovedBy(dx, dy) ==
    /\ camera.pos = <<call.preCamera.pos[1] + dx, call.preCamera.pos[2] + dy,
                      call.preCamera.pos[3]>>
    /\ camera.target = <<call.preCamera.target[1] + dx,
                         call.preCamera.target[2] + dy,
                         call.preCamera.target[3]>>

\* C8: with the camera present, one interact call with Right held moves
\* position and target by +3 on X, with Right only pressed by +1 on X, and
\* with Q held sets the finished flag in that call; Q does not move the
\* camera.
C8_InteractScenario ==
    (call.op = "interact" /\ call.preCamera.present) =>
      /\ (call.pressed = <<>> /\ call.held = <<"Right">>) =>
           CameraMovedBy(3, 0)
      /\ (call.pressed = <<"Right">> /\ call.held = <<>>) =>
           CameraMovedBy(1, 0)
      /\ "Q" \in Range(call.held) => should_finish
      /\ (call.pressed = <<>> /\ Range(call.held) = {"Q"}) =>
           CameraMovedBy(0, 0)
      /\ call.result = "Ok"

\* Right was held in a frame that the camera did not start at the origin.
C8_Witness ==
    /\ call.op = "interact"
    /\ call.preCamera.present
    /\ call.preCamera.pos[1] # 0
    /\ call.pressed = <<>>
    /\ call.held = <<"Right">>
    /\ camera.pos[1] = call.preCamera.pos[1] + 3

\* C9: interact called while the camera resource is None panics for every
\* input: it returns neither Ok nor Err and leaves the finished flag as it
\* was.
C9_MissingCameraPanics ==
    (call.op = "interact" /\ ~call.preCamera.present) =>
      /\ call.result = "panic"
      /\ crashed
      /\ should_finish = call.preFinish
      /\ ~should_finish

\* interact was called with Q held and no camera.
C9_Witness ==
    /\ call.op = "interact"
    /\ ~call.preCamera.present
    /\ "Q" \in Range(call.held)
    /\ crashed

\* C10: when an operation has ended, on any path, no World, Context or
\* renderer lock is held or unusable.
C10_LocksReleasedAndUsable ==
    /\ (\A t \in LoadTasks : pc[t] # "locked") => worldWriter = "none"
    /\ poisoned = {}

\* C11: draw returns the backend's render error to its caller, and returns
\* Ok only when rendering succeeded.
C11_DrawSurfacesRenderError ==
    call.op = "draw" =>
      /\ call.backend = "render_error" => call.result = "Err"
      /\ call.result = "Ok" => call.backend = "ok"

\* C12: a draw call leaves the camera, its presence, every translation, the
\* entities and the finished flag as they were.
C12_DrawKeepsGameplayState ==
    [][framePc = "draw" =>
         /\ camera' = camera
         /\ transforms' = transforms
         /\ entities' = entities
         /\ should_finish' = should_finish]_vars

\* A frame was drawn in a World whose camera had been moved and whose flag
\* had been set.
C12_Witness ==
    /\ call.op = "draw"
    /\ call.result = "Ok"
    /\ frameBuffer = "drawn"
    /\ camera.pos # LoadedCamera.pos
    /\ camera = call.preCamera
    /\ should_finish

IsFinishedDue == sceneBuilt /\ ~crashed /\ framePc = "is_finished"

\* C13: is_finished never waits for, takes or changes the World lock: it
\* can run while a writer holds the lock, and it returns the flag as the
\* last interact left it.
C13_IsFinishedIsLockFree ==
    /\ [](IsFinishedDue => ENABLED IsFinished)
    /\ [](call.op = "is_finished" =>
            call.result = (IF call.preFinish THEN "Ok(true)" ELSE "Ok(false)"))
    /\ [][(IsFinishedDue /\ framePc' = "update") =>
            worldWriter' = worldWriter]_vars
    /\ [][(call.op = "interact" /\ "Q" \in Range(call.held)
             /\ call'.op = "is_finished") =>
            call'.result = "Ok(true)"]_vars

\* is_finished returned true, after an interact that held Q, while a writer
\* held the World lock.
C13_Witness ==
    /\ call.op = "is_finished"
    /\ call.result = "Ok(true)"
    /\ worldWriter = "other"

\* C14: a failed aggregate load does not roll back what completed steps put
\* into the World.  No step of the load removes the texture dictionary or
\* the camera; a texture-dictionary step that is done has left the
\* dictionary in the World; and when that step is done and the camera step
\* has failed, the failed load leaves the dictionary present and the camera
\* absent.
C14_NoRollback ==
    /\ [][(textureDict => textureDict') /\
          (camera.present => camera'.present)]_vars
    /\ [](pc["td"] = "done" => textureDict)
    /\ []((loadResult.status = "failed" /\ pc["td"] = "done" /\
           pc["cam"] = "failed")
          => (textureDict /\ ~camera.present))

C14_Witness ==
    /\ loadResult.status = "failed"
    /\ insertOrder = <<"td">>
    /\ pc["cam"] = "failed"
    /\ errLog[1].origin = "cam"
    /\ textureDict
    /\ ~camera.present

\* C15: in load_scene no entity is constructed before the sprite-renderer load
\* has resolved; a CameraTestScene exists only when the renderer load and
\* the entity construction both succeeded; and when either fails no scene is
\* produced and the load fails with that failure.
C15_EntitiesAfterRenderer ==
    /\ ssPc \in {"waiting", "factory", "renderer"} =>
          (entities = {} /\ transforms = <<>>)
    /\ sceneBuilt => (ssPc = "done" /\ errLog = <<>> /\
                      loadResult.status = "ok")
    /\ ssPc = "failed" =>
          /\ ~sceneBuilt
          /\ sceneMapCalls = 0
          /\ loadResult = Failed(errLog)
          /\ errLog[Len(errLog)].origin = "renderer" => entities = {}

\* Entity construction failed at a component descriptor after the renderer
\* load succeeded and one entity was built.
C15_Witness ==
    /\ ssPc = "failed"
    /\ dispatch.fn = "map_json_to_loader"
    /\ ~dispatch.result.ok
    /\ entities # {}
    /\ ~sceneBuilt

\* The update calls that have returned so far.
UpdatesDone == IF framePc = "update" THEN frame - 1 ELSE frame

\* C16: each update call adds exactly 1 to the X translation of every entity
\* that has a Transform, whatever the order the join visits them in,
\* returns NONE, and leaves the camera, the finished flag, the set of
\* entities and the set of Transform holders as they were; after n update
\* calls each X translation is its initial value plus n.
C16_UpdateAddsOne ==
    /\ [][(framePc = "update" /\ framePc' = "draw") =>
            /\ DOMAIN transforms' = DOMAIN transforms
            /\ \A e \in DOMAIN transforms : transforms'[e] = transforms[e] + 1
            /\ call'.op = "update"
            /\ call'.result = "Ok(NONE)"
            /\ camera' = camera
            /\ should_finish' = should_finish
            /\ entities' = entities]_vars
    /\ [](\A e \in DOMAIN transforms :
            transforms[e] = EntityInitX[e] + UpdatesDone)

\* The second update has returned; the entity without a Transform is still
\* without one.
C16_Witness ==
    /\ call.op = "update"
    /\ frame = 2
    /\ transforms["e1"] = EntityInitX["e1"] + 2
    /\ transforms["e2"] = EntityInitX["e2"] + 2
    /\ "e3" \in entities \ DOMAIN transforms

\* C17: the aggregate load never deadlocks.  A joined task holds the World
\* write lock only between entering its closure and the end of its insert,
\* and while it holds the lock its insert can be taken, so it waits for
\* nothing; a load that has not ended can always take a step; and every
\* load ends, with a scene or with an error.
C17_LoadTerminates ==
    /\ [](\A t \in LoadTasks :
            worldWriter = t => (pc[t] = "locked" /\ ENABLED MapInsert(t)))
    /\ [](worldWriter \in LoadTasks \cup {"none"})
    /\ [](loadResult.status = "pending" => ENABLED NextLoad)
    /\ [](loadResult.status = "ok" => sceneBuilt)
    /\ [](loadResult.status = "failed" => loadResult.err # NoError)
    /\ <>(loadResult.status # "pending")

\* The load ended with a scene after the camera insert ran before the
\* texture-dictionary insert.
C17_Witness ==
    /\ loadResult.status = "ok"
    /\ insertOrder = <<"cam", "td">>
    /\ worldWriter = "none"
    /\ sceneBuilt

\* Target minus position.
Offset(cam) == [i \in 1..3 |-> cam.target[i] - cam.pos[i]]

\* C18: interact moves the camera position and the camera target by the
\* same vector, so after any sequence of interact calls the offset from
\* position to target is the one the camera was loaded with, and neither Z
\* coordinate has changed.
C18_OffsetPreserved ==
    /\ [][(framePc = "interact" /\ camera.present) =>
            /\ \A i \in 1..3 : camera'.pos[i] - camera.pos[i] =
                                  camera'.target[i] - camera.target[i]
            /\ camera'.pos[3] = camera.pos[3]
            /\ camera'.target[3] = camera.target[3]]_vars
    /\ [](camera.present =>
            /\ Offset(camera) = Offset(LoadedCamera)
            /\ camera.pos[3] = LoadedCamera.pos[3]
            /\ camera.target[3] = LoadedCamera.target[3])

\* The second interact call moved, by a pressed key, a camera the first
\* one had already moved.
C18_Witness ==
    /\ call.op = "interact"
    /\ frame = 2
    /\ call.pressed # <<>>
    /\ call.preCamera.pos # LoadedCamera.pos
    /\ camera.pos # call.preCamera.pos
    /\ camera.pos # LoadedCamera.pos

\* The occurrences of key in a key list.
Count(keys, key) == Cardinality({i \in 1..Len(keys) : keys[i] = key})

\* C19: in one interact call the pressed and the held keys add up, in
\* whatever order they are listed: X moves by 1 for each pressed Right less
\* each pressed Left plus 3 for each held Right less each held Left, and Y
\* by 1 for each pressed Down less each pressed Up plus 3 for each held Down
\* less each held Up; position and target move alike.
C19_KeysAreAdditive ==
    (call.op = "interact" /\ call.preCamera.present) =>
      CameraMovedBy(
        1 * (Count(call.pressed, "Right") - Count(call.pressed, "Left"))
          + 3 * (Count(call.held, "Right") - Count(call.held, "Left")),
        1 * (Count(call.pressed, "Down") - Count(call.pressed, "Up"))
          + 3 * (Count(call.held, "Down") - Count(call.held, "Up")))

\* Right was both pressed and held in one call: the camera moved by +4 on X.
C19_Witness ==
    /\ call.op = "interact"
    /\ call.preCamera.present
    /\ call.pressed = <<"Right">>
    /\ call.held = <<"Right">>
    /\ camera.pos[1] = call.preCamera.pos[1] + 4
    /\ camera.target[1] = call.preCamera.target[1] + 4

\* The keys some arm of interact's match statements names.
BoundKeys == {"Left", "Right", "Up", "Down", "Q"}

\* C20: an interact call turns the finished flag from false to true exactly
\* when the camera is present and Q is among the held keys; Q among the
\* pressed keys only leaves the flag as it was; and a call whose keys are
\* all other than Left, Right, Up, Down and Q leaves the camera and the flag
\* as they were.
C20_FinishOnlyByHeldQ ==
    call.op = "interact" =>
      /\ (~call.preFinish /\ should_finish) <=>
           (~call.preFinish /\ call.preCamera.present /\
            "Q" \in Range(call.held))
      /\ "Q" \notin Range(call.held) => should_finish = call.preFinish
      /\ (Range(call.pressed) \cup Range(call.held)) \cap BoundKeys = {} =>
           (camera = call.preCamera /\ should_finish = call.preFinish)

\* Q was pressed and an unbound key held: the flag stayed false and the
\* camera where it was.
C20_Witness ==
    /\ call.op = "interact"
    /\ call.result = "Ok"
    /\ call.pressed = <<"Q">>
    /\ call.held = <<"A">>
    /\ ~should_finish
    /\ camera = call.preCamera

====
